---- MODULE Spec2Model ----
(***************************************************************************)
(* Model of asociatividad.py: Lexer, recursive-descent Parser and the      *)
(* tree-walking Interpreter, driven by the lex-parse-evaluate cycle of the *)
(* interactive loop.                                                       *)
(*                                                                         *)
(* Text is a sequence of one-character strings; identifiers are sequences  *)
(* of characters.  A Python number is the record [num, den, flt]: the      *)
(* exact rational num/den in lowest terms, flt = TRUE for a float.  With   *)
(* the literals used here every divisor is a power of two, so the float    *)
(* results are exact rationals.  A power whose float result is not a       *)
(* rational ends the evaluation with the outcome "NonRational".            *)
(***************************************************************************)
EXTENDS Integers, Sequences, FiniteSets, TLC

VARIABLES
    text,       \* the line handed to Lexer
    pc,         \* "input": a line is waiting; "tree": an AST is waiting; "done"
    tree,       \* the AST returned by Parser.parse, NoNode if there is none
    status,     \* "ok" or the exception that ended the cycle
    result,     \* the value returned by Interpreter.interpret
    variables,  \* Interpreter.variables
    prev,       \* Interpreter.variables before the last cycle
    pulled,     \* the tokens the parser got from Lexer.get_next_token
    pos,        \* Lexer.pos at the end of the last cycle
    shadow      \* the assignments completed so far, replayed on an empty map

vars == <<text, pc, tree, status, result, variables, prev, pulled, pos, shadow>>

(***************************************************************************)
(* Bounds of the model.                                                    *)
(***************************************************************************)
MaxToks == 5
MaxChars == 4
MaxSessionToks == 3
MaxNodes == 5

(***************************************************************************)
(* class Token and the AST nodes (the kind of a node is its class).        *)
(***************************************************************************)
NoNode == [kind |-> "None"]

Token(type, value) == [type |-> type, value |-> value]

EOFToken == Token("EOF", "None")

Num(value) == [kind |-> "Num", value |-> value]

Var(value) == [kind |-> "Var", value |-> value]

UnaryOp(op, expr) == [kind |-> "UnaryOp", op |-> op, expr |-> expr]

BinaryOp(left, op, right) == [kind |-> "BinaryOp", left |-> left, op |-> op, right |-> right]

Assign(left, right) == [kind |-> "Assign", left |-> left, right |-> right]

(***************************************************************************)
(* Characters (str.isspace, str.isdigit, str.isalpha on the ASCII range).  *)
(***************************************************************************)
DigitChars == <<"0", "1", "2", "3", "4", "5", "6", "7", "8", "9">>

Letters == {"a", "b", "c", "d", "e", "f", "g", "h", "i", "j", "k", "l", "m",
            "n", "o", "p", "q", "r", "s", "t", "u", "v", "w", "x", "y", "z"}

isspace(c) == c = " "

isdigit(c) == \E i \in 1..10 : DigitChars[i] = c

isalpha(c) == c \in Letters

isalnum(c) == isalpha(c) \/ isdigit(c)

DigitVal(c) == (CHOOSE i \in 1..10 : DigitChars[i] = c) - 1

(***************************************************************************)
(* Numbers.                                                                *)
(***************************************************************************)
Abs(x) == IF x < 0 THEN -x ELSE x

RECURSIVE GCD(_, _)
GCD(x, y) == IF y = 0 THEN x ELSE GCD(y, x % y)

RECURSIVE IntPow(_, _)
IntPow(b, e) == IF e = 0 THEN 1 ELSE b * IntPow(b, e - 1)

Rat(n, d, f) ==
    LET reduced(s, g) == [num |-> (s * n) \div g, den |-> (s * d) \div g, flt |-> f]
    IN  reduced(IF d < 0 THEN -1 ELSE 1, GCD(Abs(n), Abs(d)))

PyInt(n) == [num |-> n, den |-> 1, flt |-> FALSE]

IsZero(x) == x.num = 0

Ok(v) == [err |-> "none", value |-> v]

Raise(e) == [err |-> e, value |-> PyInt(0)]

PyAdd(x, y) == Ok(Rat(x.num * y.den + y.num * x.den, x.den * y.den, x.flt \/ y.flt))

PySub(x, y) == Ok(Rat(x.num * y.den - y.num * x.den, x.den * y.den, x.flt \/ y.flt))

PyMul(x, y) == Ok(Rat(x.num * y.num, x.den * y.den, x.flt \/ y.flt))

PyDiv(x, y) ==
    IF IsZero(y) THEN Raise("ZeroDivisionError")
    ELSE Ok(Rat(x.num * y.den, x.den * y.num, TRUE))

PyPow(x, y) ==
    IF y.den = 1
    THEN IF y.num >= 0
         THEN Ok(Rat(IntPow(x.num, y.num), IntPow(x.den, y.num), x.flt \/ y.flt))
         ELSE IF IsZero(x) THEN Raise("ZeroDivisionError")
              ELSE Ok(Rat(IntPow(x.den, -y.num), IntPow(x.num, -y.num), TRUE))
    ELSE IF IsZero(x)
         THEN IF y.num > 0 THEN Ok(Rat(0, 1, TRUE)) ELSE Raise("ZeroDivisionError")
         ELSE IF x.num = 1 /\ x.den = 1 THEN Ok(Rat(1, 1, TRUE))
              ELSE Raise("NonRational")

PyNeg(x) == [x EXCEPT !.num = -@]

(***************************************************************************)
(* class Lexer.                                                            *)
(***************************************************************************)
Lexer(t) == [text |-> t, pos |-> 0]

current_char(L) == IF L.pos >= Len(L.text) THEN "None" ELSE L.text[L.pos + 1]

advance(L) == [L EXCEPT !.pos = @ + 1]

RECURSIVE skip_whitespace(_)
skip_whitespace(L) ==
    IF current_char(L) # "None" /\ isspace(current_char(L))
    THEN skip_whitespace(advance(L))
    ELSE L

RECURSIVE ScanNumber(_, _)
ScanNumber(L, acc) ==
    IF current_char(L) # "None" /\ (isdigit(current_char(L)) \/ current_char(L) = ".")
    THEN ScanNumber(advance(L), Append(acc, current_char(L)))
    ELSE [lexer |-> L, result |-> acc]

RECURSIVE DigitsValue(_)
DigitsValue(ds) ==
    IF ds = <<>> THEN 0
    ELSE 10 * DigitsValue(SubSeq(ds, 1, Len(ds) - 1)) + DigitVal(ds[Len(ds)])

Dots(s) == {i \in 1..Len(s) : s[i] = "."}

\* float(result) if '.' in result else int(result)
ToNumber(s) ==
    LET with_dots(dots) ==
            IF dots = {} THEN Ok(PyInt(DigitsValue(s)))
            ELSE IF Cardinality(dots) > 1 THEN Raise("ValueError")
            ELSE LET with_point(d) ==
                         Ok(Rat(DigitsValue(SubSeq(s, 1, d - 1) \o SubSeq(s, d + 1, Len(s))),
                                IntPow(10, Len(s) - d), TRUE))
                 IN  with_point(CHOOSE i \in dots : TRUE)
    IN  with_dots(Dots(s))

number(L) ==
    LET scanned(s) ==
            LET converted(n) == [err |-> n.err, value |-> n.value, lexer |-> s.lexer]
            IN  converted(ToNumber(s.result))
    IN  scanned(ScanNumber(L, <<>>))

RECURSIVE ScanIdentifier(_, _)
ScanIdentifier(L, acc) ==
    IF current_char(L) # "None" /\ (isalnum(current_char(L)) \/ current_char(L) = "_")
    THEN ScanIdentifier(advance(L), Append(acc, current_char(L)))
    ELSE [lexer |-> L, result |-> acc]

identifier(L) == ScanIdentifier(L, <<>>)

Tok(L, type, value) == [err |-> "none", token |-> Token(type, value), lexer |-> L]

get_next_token(L0) ==
    LET at(L) ==
            LET on(c) ==
                    IF c = "None" THEN Tok(L, "EOF", "None")
                    ELSE IF isdigit(c)
                    THEN LET after_number(n) ==
                                 [err |-> n.err, token |-> Token("NUMBER", n.value),
                                  lexer |-> n.lexer]
                         IN  after_number(number(L))
                    ELSE IF isalpha(c) \/ c = "_"
                    THEN LET after_identifier(i) == Tok(i.lexer, "IDENTIFIER", i.result)
                         IN  after_identifier(identifier(L))
                    ELSE IF c = "+" THEN Tok(advance(L), "PLUS", "+")
                    ELSE IF c = "-" THEN Tok(advance(L), "MINUS", "-")
                    ELSE IF c = "*"
                    THEN IF current_char(advance(L)) = "*"
                         THEN Tok(advance(advance(L)), "POWER", "**")
                         ELSE Tok(advance(L), "MULTIPLY", "*")
                    ELSE IF c = "/" THEN Tok(advance(L), "DIVIDE", "/")
                    ELSE IF c = "=" THEN Tok(advance(L), "ASSIGN", "=")
                    ELSE IF c = "(" THEN Tok(advance(L), "LPAREN", "(")
                    ELSE IF c = ")" THEN Tok(advance(L), "RPAREN", ")")
                    ELSE [err |-> "InvalidChar", token |-> EOFToken, lexer |-> L]
            IN  on(current_char(L))
    IN  at(skip_whitespace(L0))

(***************************************************************************)
(* class Parser.  A parser is [lexer, current_token, pulled]; pulled is    *)
(* the sequence of tokens get_next_token has returned to it.  Every rule   *)
(* returns [err, node, parser].                                            *)
(***************************************************************************)
Parser(L) ==
    LET first(r) ==
            [err |-> r.err,
             parser |-> [lexer |-> r.lexer, current_token |-> r.token,
                         pulled |-> IF r.err = "none" THEN <<r.token>> ELSE <<>>]]
    IN  first(get_next_token(L))

eat(P, token_type) ==
    IF P.current_token.type = token_type
    THEN LET next(r) ==
                 IF r.err = "none"
                 THEN [err |-> "none",
                       parser |-> [lexer |-> r.lexer, current_token |-> r.token,
                                   pulled |-> Append(P.pulled, r.token)]]
                 ELSE [err |-> r.err, parser |-> [P EXCEPT !.lexer = r.lexer]]
         IN  next(get_next_token(P.lexer))
    ELSE [err |-> "UnexpectedToken", parser |-> P]

Fail(e, P) == [err |-> e, node |-> NoNode, parser |-> P]

Done(n, P) == [err |-> "none", node |-> n, parser |-> P]

RECURSIVE factor(_), power(_), term(_), term_while(_, _), expr(_), expr_while(_, _),
          assignment(_)

\* factor with the parenthesis branch descending into assignment
factor_paren_assignment(P) ==
    LET token == P.current_token
    IN  IF token.type \in {"PLUS", "MINUS"}
        THEN LET after_eat(e) ==
                     IF e.err # "none" THEN Fail(e.err, e.parser)
                     ELSE LET after_factor(f) ==
                                  IF f.err # "none" THEN f
                                  ELSE Done(UnaryOp(token, f.node), f.parser)
                          IN  after_factor(factor(e.parser))
             IN  after_eat(eat(P, token.type))
        ELSE IF token.type = "NUMBER"
        THEN LET after_eat(e) ==
                     IF e.err # "none" THEN Fail(e.err, e.parser)
                     ELSE Done(Num(token.value), e.parser)
             IN  after_eat(eat(P, "NUMBER"))
        ELSE IF token.type = "IDENTIFIER"
        THEN LET after_eat(e) ==
                     IF e.err # "none" THEN Fail(e.err, e.parser)
                     ELSE Done(Var(token.value), e.parser)
             IN  after_eat(eat(P, "IDENTIFIER"))
        ELSE IF token.type = "LPAREN"
        THEN LET after_eat(e) ==
                     IF e.err # "none" THEN Fail(e.err, e.parser)
                     ELSE LET after_expr(n) ==
                                  IF n.err # "none" THEN n
                                  ELSE LET after_rparen(c) ==
                                               IF c.err # "none" THEN Fail(c.err, c.parser)
                                               ELSE Done(n.node, c.parser)
                                       IN  after_rparen(eat(n.parser, "RPAREN"))
                          IN  after_expr(assignment(e.parser))
             IN  after_eat(eat(P, "LPAREN"))
        ELSE Fail("UnexpectedToken", P)

factor(P) ==
    LET token == P.current_token
    IN  IF token.type \in {"PLUS", "MINUS"}
        THEN LET after_eat(e) ==
                     IF e.err # "none" THEN Fail(e.err, e.parser)
                     ELSE LET after_factor(f) ==
                                  IF f.err # "none" THEN f
                                  ELSE Done(UnaryOp(token, f.node), f.parser)
                          IN  after_factor(factor(e.parser))
             IN  after_eat(eat(P, token.type))
        ELSE IF token.type = "NUMBER"
        THEN LET after_eat(e) ==
                     IF e.err # "none" THEN Fail(e.err, e.parser)
                     ELSE Done(Num(token.value), e.parser)
             IN  after_eat(eat(P, "NUMBER"))
        ELSE IF token.type = "IDENTIFIER"
        THEN LET after_eat(e) ==
                     IF e.err # "none" THEN Fail(e.err, e.parser)
                     ELSE Done(Var(token.value), e.parser)
             IN  after_eat(eat(P, "IDENTIFIER"))
        ELSE IF token.type = "LPAREN"
        THEN LET after_eat(e) ==
                     IF e.err # "none" THEN Fail(e.err, e.parser)
                     ELSE LET after_expr(n) ==
                                  IF n.err # "none" THEN n
                                  ELSE LET after_rparen(c) ==
                                               IF c.err # "none" THEN Fail(c.err, c.parser)
                                               ELSE Done(n.node, c.parser)
                                       IN  after_rparen(eat(n.parser, "RPAREN"))
                          IN  after_expr(expr(e.parser))
             IN  after_eat(eat(P, "LPAREN"))
        ELSE Fail("UnexpectedToken", P)

\* power as a loop that folds to the left, as term does
RECURSIVE power_left_while(_, _)
power_left_while(node, P) ==
    IF P.current_token.type = "POWER"
    THEN LET token == P.current_token
             after_eat(e) ==
                 IF e.err # "none" THEN Fail(e.err, e.parser)
                 ELSE LET after_factor(r) ==
                              IF r.err # "none" THEN r
                              ELSE power_left_while(BinaryOp(node, token, r.node), r.parser)
                      IN  after_factor(factor(e.parser))
         IN  after_eat(eat(P, "POWER"))
    ELSE Done(node, P)

power_left(P) ==
    LET after_factor(f) == IF f.err # "none" THEN f ELSE power_left_while(f.node, f.parser)
    IN  after_factor(factor(P))

power(P) ==
    LET after_factor(f) ==
            IF f.err # "none" THEN f
            ELSE IF f.parser.current_token.type = "POWER"
            THEN LET token == f.parser.current_token
                     after_eat(e) ==
                         IF e.err # "none" THEN Fail(e.err, e.parser)
                         ELSE LET after_power(r) ==
                                      IF r.err # "none" THEN r
                                      ELSE Done(BinaryOp(f.node, token, r.node), r.parser)
                              IN  after_power(power(e.parser))
                 IN  after_eat(eat(f.parser, "POWER"))
            ELSE f
    IN  after_factor(factor(P))

\* the while loop of term, entered with the node built so far
term_while(node, P) ==
    IF P.current_token.type \in {"MULTIPLY", "DIVIDE"}
    THEN LET token == P.current_token
             after_eat(e) ==
                 IF e.err # "none" THEN Fail(e.err, e.parser)
                 ELSE LET after_power(r) ==
                              IF r.err # "none" THEN r
                              ELSE term_while(BinaryOp(node, token, r.node), r.parser)
                      IN  after_power(power(e.parser))
         IN  after_eat(eat(P, token.type))
    ELSE Done(node, P)

term(P) ==
    LET after_power(n) == IF n.err # "none" THEN n ELSE term_while(n.node, n.parser)
    IN  after_power(power(P))

\* the loop of expr replaced by a recursion into expr for the right operand
expr_while_right(node, P) ==
    IF P.current_token.type \in {"PLUS", "MINUS"}
    THEN LET token == P.current_token
             after_eat(e) ==
                 IF e.err # "none" THEN Fail(e.err, e.parser)
                 ELSE LET after_expr(r) ==
                              IF r.err # "none" THEN r
                              ELSE Done(BinaryOp(node, token, r.node), r.parser)
                      IN  after_expr(expr(e.parser))
         IN  after_eat(eat(P, token.type))
    ELSE Done(node, P)

\* the while loop of expr, entered with the node built so far
expr_while(node, P) ==
    IF P.current_token.type \in {"PLUS", "MINUS"}
    THEN LET token == P.current_token
             after_eat(e) ==
                 IF e.err # "none" THEN Fail(e.err, e.parser)
                 ELSE LET after_term(r) ==
                              IF r.err # "none" THEN r
                              ELSE expr_while(BinaryOp(node, token, r.node), r.parser)
                      IN  after_term(term(e.parser))
         IN  after_eat(eat(P, token.type))
    ELSE Done(node, P)

expr(P) ==
    LET after_term(n) == IF n.err # "none" THEN n ELSE expr_while(n.node, n.parser)
    IN  after_term(term(P))

\* assignment whose right-hand side is parsed by expr
assignment_nochain(P) ==
    LET after_expr(n) ==
            IF n.err # "none" THEN n
            ELSE IF n.node.kind = "Var" /\ n.parser.current_token.type = "ASSIGN"
            THEN LET after_eat(e) ==
                         IF e.err # "none" THEN Fail(e.err, e.parser)
                         ELSE LET after_right(r) ==
                                      IF r.err # "none" THEN r
                                      ELSE Done(Assign(n.node, r.node), r.parser)
                              IN  after_right(expr(e.parser))
                 IN  after_eat(eat(n.parser, "ASSIGN"))
            ELSE n
    IN  after_expr(expr(P))

assignment(P) ==
    LET after_expr(n) ==
            IF n.err # "none" THEN n
            ELSE IF n.node.kind = "Var" /\ n.parser.current_token.type = "ASSIGN"
            THEN LET after_eat(e) ==
                         IF e.err # "none" THEN Fail(e.err, e.parser)
                         ELSE LET after_right(r) ==
                                      IF r.err # "none" THEN r
                                      ELSE Done(Assign(n.node, r.node), r.parser)
                              IN  after_right(assignment(e.parser))
                 IN  after_eat(eat(n.parser, "ASSIGN"))
            ELSE n
    IN  after_expr(expr(P))

parse(P) == assignment(P)

(***************************************************************************)
(* class Interpreter.  Every visit returns [err, value, variables].        *)
(***************************************************************************)
Empty == [n \in {} |-> PyInt(0)]

Store(env, name, value) == (name :> value) @@ env

Ret(r, env) == [err |-> r.err, value |-> r.value, variables |-> env]

BinOpValue(op, x, y) ==
    CASE op.type = "PLUS" -> PyAdd(x, y)
      [] op.type = "MINUS" -> PySub(x, y)
      [] op.type = "MULTIPLY" -> PyMul(x, y)
      [] op.type = "DIVIDE" -> PyDiv(x, y)
      [] op.type = "POWER" -> PyPow(x, y)

RECURSIVE visit(_, _), visit_BinaryOp(_, _), visit_UnaryOp(_, _), visit_Assign(_, _)

\* visit_BinaryOp evaluating the right operand in the map it was entered with
visit_BinaryOp_nothread(node, env) ==
    LET after_left(l) ==
            IF l.err # "none" THEN l
            ELSE LET after_right(r) ==
                         IF r.err # "none" THEN r
                         ELSE Ret(BinOpValue(node.op, l.value, r.value), r.variables)
                 IN  after_right(visit(node.right, env))
    IN  after_left(visit(node.left, env))

visit_BinaryOp(node, env) ==
    LET after_left(l) ==
            IF l.err # "none" THEN l
            ELSE LET after_right(r) ==
                         IF r.err # "none" THEN r
                         ELSE Ret(BinOpValue(node.op, l.value, r.value), r.variables)
                 IN  after_right(visit(node.right, l.variables))
    IN  after_left(visit(node.left, env))

visit_UnaryOp(node, env) ==
    LET after_expr(e) ==
            IF e.err # "none" THEN e
            ELSE IF node.op.type = "PLUS" THEN e
            ELSE [e EXCEPT !.value = PyNeg(@)]
    IN  after_expr(visit(node.expr, env))

visit_Num(node, env) == Ret(Ok(node.value), env)

visit_Var(node, env) ==
    IF node.value \in DOMAIN env
    THEN Ret(Ok(env[node.value]), env)
    ELSE Ret(Raise("NameError"), env)

\* visit_Assign replacing the whole map by the one new entry
visit_Assign_reset(node, env) ==
    LET after_right(v) ==
            IF v.err # "none" THEN v
            ELSE [v EXCEPT !.variables = Store(Empty, node.left.value, v.value)]
    IN  after_right(visit(node.right, env))

visit_Assign(node, env) ==
    LET after_right(v) ==
            IF v.err # "none" THEN v
            ELSE [v EXCEPT !.variables = Store(@, node.left.value, v.value)]
    IN  after_right(visit(node.right, env))

visit(node, env) ==
    CASE node.kind = "BinaryOp" -> visit_BinaryOp(node, env)
      [] node.kind = "UnaryOp" -> visit_UnaryOp(node, env)
      [] node.kind = "Num" -> visit_Num(node, env)
      [] node.kind = "Var" -> visit_Var(node, env)
      [] node.kind = "Assign" -> visit_Assign(node, env)

interpret(t, env) == visit(t, env)

NoValue == [num |-> 0, den |-> 0, flt |-> FALSE]

(***************************************************************************)
(* One lex-parse-evaluate cycle on an interpreter whose variables are env: *)
(*   lexer = Lexer(text); parser = Parser(lexer); tree = parser.parse();   *)
(*   result = interpreter.interpret(tree)                                  *)
(* with the exception, if any, caught by the caller.                       *)
(***************************************************************************)
Cycle(t, env) ==
    LET after_Parser(p) ==
            IF p.err # "none"
            THEN [status |-> p.err, tree |-> NoNode, result |-> NoValue, variables |-> env,
                  pulled |-> p.parser.pulled, pos |-> p.parser.lexer.pos]
            ELSE LET after_parse(r) ==
                         IF r.err # "none"
                         THEN [status |-> r.err, tree |-> NoNode, result |-> NoValue,
                               variables |-> env,
                               pulled |-> r.parser.pulled, pos |-> r.parser.lexer.pos]
                         ELSE LET after_interpret(i) ==
                                      [status |-> IF i.err = "none" THEN "ok" ELSE i.err,
                                       tree |-> r.node,
                                       result |-> IF i.err = "none" THEN i.value
                                                  ELSE NoValue,
                                       variables |-> i.variables,
                                       pulled |-> r.parser.pulled,
                                       pos |-> r.parser.lexer.pos]
                              IN  after_interpret(interpret(r.node, env))
                 IN  after_parse(parse(p.parser))
    IN  after_Parser(Parser(Lexer(t)))

(***************************************************************************)
(* The assignments of a tree that complete when it is evaluated from env,  *)
(* in visit order, as <<name, value>> pairs, and their replay on a map.    *)
(***************************************************************************)
RECURSIVE ApplyWrites(_, _)
ApplyWrites(env, ws) ==
    IF ws = <<>> THEN env
    ELSE ApplyWrites(Store(env, ws[1][1], ws[1][2]), Tail(ws))

RECURSIVE CompletedWrites(_, _)
CompletedWrites(node, env) ==
    CASE node.kind \in {"Num", "Var", "None"} -> <<>>
      [] node.kind = "UnaryOp" -> CompletedWrites(node.expr, env)
      [] node.kind = "BinaryOp" ->
            LET after_left(lw, l) ==
                    IF l.err # "none" THEN lw
                    ELSE lw \o CompletedWrites(node.right, ApplyWrites(env, lw))
            IN  after_left(CompletedWrites(node.left, env), visit(node.left, env))
      [] node.kind = "Assign" ->
            LET after_right(rw, v) ==
                    IF v.err # "none" THEN rw
                    ELSE Append(rw, <<node.left.value, v.value>>)
            IN  after_right(CompletedWrites(node.right, env), visit(node.right, env))

(***************************************************************************)
(* Inputs.                                                                 *)
(***************************************************************************)
RECURSIVE Join(_)
Join(ls) ==
    IF ls = <<>> THEN <<>>
    ELSE IF Len(ls) = 1 THEN ls[1]
    ELSE ls[1] \o <<" ">> \o Join(Tail(ls))

ArithLexemes == {<<"0">>, <<"2">>, <<"+">>, <<"-">>, <<"*">>, <<"/">>, <<"*", "*">>}

AssignLexemes == {<<"2">>, <<"a">>, <<"b">>, <<"=">>, <<"(">>, <<")">>, <<"+">>, <<"-">>}

LexChars == {"1", ".", "a", "_", " ", "*", "@"}

SessionLexemes == {<<"0">>, <<"2">>, <<"a">>, <<"b">>, <<"=">>, <<"/">>, <<"@">>}

\* t is a line of at most MaxToks lexemes of one of the two vocabularies,
\* separated by single spaces, or any text of at most MaxChars characters
IsLine(t) ==
    \/ \E k \in 0..MaxToks : \E l \in [1..k -> ArithLexemes] : t = Join(l)
    \/ \E k \in 0..MaxToks : \E l \in [1..k -> AssignLexemes] : t = Join(l)
    \/ \E k \in 0..MaxChars : t \in [1..k -> LexChars]

\* number of lexemes typed so far
TokCount(t) == IF t = <<>> THEN 0 ELSE Cardinality({i \in 1..Len(t) : t[i] = " "}) + 1

PlusTok == Token("PLUS", "+")

MinusTok == Token("MINUS", "-")

DivideTok == Token("DIVIDE", "/")

TreeLeaves == {Num(PyInt(0)), Num(PyInt(2)), Var(<<"a">>), Var(<<"b">>)}

RECURSIVE TreesOfSize(_)
TreesOfSize(n) ==
    IF n = 1 THEN TreeLeaves
    ELSE {UnaryOp(MinusTok, t) : t \in TreesOfSize(n - 1)}
         \cup {Assign(Var(v), t) : v \in {<<"a">>, <<"b">>}, t \in TreesOfSize(n - 1)}
         \cup UNION {{BinaryOp(l, op, r) : l \in TreesOfSize(k), op \in {PlusTok, DivideTok},
                                          r \in TreesOfSize(n - 1 - k)} : k \in 1..(n - 2)}

Trees == UNION {TreesOfSize(n) : n \in 1..MaxNodes}

TreeEnvs ==
    {Empty,
     Store(Empty, <<"a">>, PyInt(2)),
     Store(Store(Empty, <<"a">>, PyInt(0)), <<"b">>, PyInt(2))}

(***************************************************************************)
(* Actions.                                                                *)
(***************************************************************************)
Fresh ==
    /\ status = "ok"
    /\ result = NoValue
    /\ prev = Empty
    /\ pulled = <<>>
    /\ pos = 0
    /\ shadow = Empty

\* a fresh Interpreter and one line to run
Init ==
    /\ IsLine(text)
    /\ pc = "input"
    /\ variables = Empty
    /\ tree = NoNode
    /\ Fresh

\* a fresh Interpreter at the start of a session, nothing typed yet
InitSession ==
    /\ text = <<>>
    /\ pc = "input"
    /\ variables = Empty
    /\ tree = NoNode
    /\ Fresh

\* an Interpreter and a directly constructed AST
InitTree ==
    /\ text = <<>>
    /\ pc = "tree"
    /\ variables \in TreeEnvs
    /\ tree \in Trees
    /\ status = "ok"
    /\ result = NoValue
    /\ prev = variables
    /\ pulled = <<>>
    /\ pos = 0
    /\ shadow = variables

Run ==
    /\ pc = "input"
    /\ LET finish(c) ==
               /\ tree' = c.tree
               /\ status' = c.status
               /\ result' = c.result
               /\ variables' = c.variables
               /\ pulled' = c.pulled
               /\ pos' = c.pos
               /\ shadow' = ApplyWrites(shadow, CompletedWrites(c.tree, variables))
       IN  finish(Cycle(text, variables))
    /\ prev' = variables
    /\ pc' = "done"
    /\ UNCHANGED text

\* text = input(...): one more lexeme of the line is typed
Type ==
    /\ pc = "input"
    /\ TokCount(text) < MaxSessionToks
    /\ \E l \in SessionLexemes :
          text' = IF text = <<>> THEN l ELSE text \o <<" ">> \o l
    /\ UNCHANGED <<pc, tree, status, result, variables, prev, pulled, pos, shadow>>

\* the loop comes back to input(...); the locals of the last cycle are dead
NextLine ==
    /\ pc = "done"
    /\ text' = <<>>
    /\ pc' = "input"
    /\ tree' = NoNode
    /\ status' = "ok"
    /\ result' = NoValue
    /\ prev' = variables
    /\ pulled' = <<>>
    /\ pos' = 0
    /\ UNCHANGED <<variables, shadow>>

Interpret ==
    /\ pc = "tree"
    /\ LET finish(i) ==
               /\ status' = IF i.err = "none" THEN "ok" ELSE i.err
               /\ result' = IF i.err = "none" THEN i.value ELSE NoValue
               /\ variables' = i.variables
       IN  finish(interpret(tree, variables))
    /\ shadow' = ApplyWrites(shadow, CompletedWrites(tree, variables))
    /\ prev' = variables
    /\ pc' = "done"
    /\ UNCHANGED <<text, tree, pulled, pos>>

Next == Run

NextSession == Type \/ Run \/ NextLine

NextTree == Interpret

Spec == Init /\ [][Next]_vars

SpecSession == InitSession /\ [][NextSession]_vars

SpecTree == InitTree /\ [][NextTree]_vars

(***************************************************************************)
(* Vocabulary of the properties.                                           *)
(***************************************************************************)
\* the parser returned a tree (the cycle did not end while lexing or parsing)
ParseReturned == pc = "done" /\ status \in {"ok", "NameError", "ZeroDivisionError", "NonRational"}

LastPulled == pulled[Len(pulled)]

IsAtomTok(t) == t.type \in {"NUMBER", "IDENTIFIER"}

Atom(t) == IF t.type = "NUMBER" THEN Num(t.value) ELSE Var(t.value)

AtomValue(t, env) ==
    IF t.type = "NUMBER" THEN Ok(t.value)
    ELSE IF t.value \in DOMAIN env THEN Ok(env[t.value]) ELSE Raise("NameError")

Apply(type, x, y) ==
    CASE type = "PLUS" -> PyAdd(x, y)
      [] type = "MINUS" -> PySub(x, y)
      [] type = "MULTIPLY" -> PyMul(x, y)
      [] type = "DIVIDE" -> PyDiv(x, y)
      [] type = "POWER" -> PyPow(x, y)

\* ts is  atom op atom ... op atom EOF  with n >= 2 atoms and every op in ops
IsChain(ts, ops) ==
    /\ Len(ts) >= 4
    /\ Len(ts) % 2 = 0
    /\ ts[Len(ts)].type = "EOF"
    /\ \A i \in 1..(Len(ts) - 1) :
          IF i % 2 = 1 THEN IsAtomTok(ts[i]) ELSE ts[i].type \in ops

\* ((a1 op a2) op a3) ... over the first k tokens, and its left-to-right fold
RECURSIVE LeftNest(_, _)
LeftNest(ts, k) ==
    IF k = 1 THEN Atom(ts[1])
    ELSE BinaryOp(LeftNest(ts, k - 2), ts[k - 1], Atom(ts[k]))

RECURSIVE FoldLeft(_, _, _)
FoldLeft(ts, k, env) ==
    IF k = 1 THEN AtomValue(ts[1], env)
    ELSE LET acc == FoldLeft(ts, k - 2, env)
             y == AtomValue(ts[k], env)
         IN  IF acc.err # "none" THEN acc
             ELSE IF y.err # "none" THEN y
             ELSE Apply(ts[k - 1].type, acc.value, y.value)

\* ai op (... op ak) over the tokens i..k, and its right-to-left fold
RECURSIVE RightNest(_, _, _)
RightNest(ts, i, k) ==
    IF i = k THEN Atom(ts[i])
    ELSE BinaryOp(Atom(ts[i]), ts[i + 1], RightNest(ts, i + 2, k))

RECURSIVE FoldRight(_, _, _, _)
FoldRight(ts, i, k, env) ==
    IF i = k THEN AtomValue(ts[i], env)
    ELSE LET x == AtomValue(ts[i], env)
             rest == FoldRight(ts, i + 2, k, env)
         IN  IF x.err # "none" THEN x
             ELSE IF rest.err # "none" THEN rest
             ELSE Apply(ts[i + 1].type, x.value, rest.value)

\* the cycle ended as the value computation f did
Agrees(f) ==
    IF f.err = "none" THEN status = "ok" /\ result = f.value ELSE status = f.err

RECURSIVE AssignCount(_)
AssignCount(n) ==
    CASE n.kind \in {"Num", "Var", "None"} -> 0
      [] n.kind = "UnaryOp" -> AssignCount(n.expr)
      [] n.kind = "BinaryOp" -> AssignCount(n.left) + AssignCount(n.right)
      [] n.kind = "Assign" -> 1 + AssignCount(n.right)

\* Assign nodes only at the root and down the right children of Assign nodes
RECURSIVE AssignSpine(_)
AssignSpine(n) ==
    IF n.kind = "Assign" THEN n.left.kind = "Var" /\ AssignSpine(n.right)
    ELSE AssignCount(n) = 0

\* the tokens of a text as successive get_next_token calls return them, up to
\* and including EOF, or up to the first lexical error
RECURSIVE TokensFrom(_)
TokensFrom(L) ==
    LET after(r) ==
            IF r.err # "none" THEN <<>>
            ELSE IF r.token.type = "EOF" THEN <<r.token>>
            ELSE <<r.token>> \o TokensFrom(r.lexer)
    IN  after(get_next_token(L))

\* number of leading  IDENTIFIER =  pairs of ts
RECURSIVE LeadingPairs(_)
LeadingPairs(ts) ==
    IF Len(ts) >= 2 /\ ts[1].type = "IDENTIFIER" /\ ts[2].type = "ASSIGN"
    THEN 1 + LeadingPairs(SubSeq(ts, 3, Len(ts)))
    ELSE 0

\* the node under k Assign nodes
RECURSIVE SpineCore(_, _)
SpineCore(n, k) == IF k = 0 \/ n.kind # "Assign" THEN n ELSE SpineCore(n.right, k - 1)

\* n is Assign(v1, Assign(v2, ... Assign(vk, e))) with the targets of ts, e no Assign
RECURSIVE IsAssignChain(_, _, _)
IsAssignChain(n, ts, k) ==
    IF k = 0 THEN n.kind # "Assign"
    ELSE /\ n.kind = "Assign"
         /\ n.left = Var(ts[1].value)
         /\ IsAssignChain(n.right, SubSeq(ts, 3, Len(ts)), k - 1)

ParenDepth(ts, i) ==
    Cardinality({j \in 1..i : ts[j].type = "LPAREN"})
    - Cardinality({j \in 1..i : ts[j].type = "RPAREN"})

(***************************************************************************)
(* C1.  For every input  sign x ** y  (a unary sign, an operand, **, an    *)
(* operand), parse returns UnaryOp(sign, BinaryOp(x, **, y)), and          *)
(* - 2 ** 2 evaluates to -4.                                               *)
(***************************************************************************)
C1_PowerBindsTighterThanUnary ==
    (/\ pc = "done"
     /\ Len(pulled) = 5
     /\ pulled[1].type \in {"PLUS", "MINUS"}
     /\ IsAtomTok(pulled[2])
     /\ pulled[3].type = "POWER"
     /\ IsAtomTok(pulled[4])
     /\ pulled[5].type = "EOF")
    => /\ tree = UnaryOp(pulled[1], BinaryOp(Atom(pulled[2]), pulled[3], Atom(pulled[4])))
       /\ (text = <<"-", " ", "2", " ", "*", "*", " ", "2">>
              => status = "ok" /\ result = PyInt(-4))

(***************************************************************************)
(* C2.  Whenever parse returns a tree, the token after the tree is the     *)
(* end-of-input token: a line with tokens left over is an error.           *)
(***************************************************************************)
C2_ParseAccountsForEveryToken ==
    ParseReturned => LastPulled.type = "EOF"

(***************************************************************************)
(* C3.  For a chain of n >= 2 operands joined by + and - only, or by * and *)
(* / only, parse returns the left-nested tree and interpret ends as the    *)
(* left-to-right fold of the operators over the operands does.             *)
(***************************************************************************)
C3_LeftAssociativeChains ==
    (pc = "done" /\ (IsChain(pulled, {"PLUS", "MINUS"}) \/ IsChain(pulled, {"MULTIPLY", "DIVIDE"})))
    => /\ ParseReturned
       /\ tree = LeftNest(pulled, Len(pulled) - 1)
       /\ Agrees(FoldLeft(pulled, Len(pulled) - 1, prev))

\* 2 - 2 - 2 has been evaluated to -2 (the right-nested tree gives 2)
C3_Witness ==
    /\ pc = "done"
    /\ IsChain(pulled, {"MINUS"})
    /\ Len(pulled) = 6
    /\ \A i \in {1, 3, 5} : pulled[i] = Token("NUMBER", PyInt(2))
    /\ status = "ok"
    /\ result = PyInt(-2)

(***************************************************************************)
(* C4.  For a chain of n >= 2 operands joined by ** only, parse returns    *)
(* the right-nested tree and interpret ends as the right-to-left fold      *)
(* does.                                                                   *)
(***************************************************************************)
C4_PowerChainsNestRight ==
    (pc = "done" /\ IsChain(pulled, {"POWER"}))
    => /\ ParseReturned
       /\ tree = RightNest(pulled, 1, Len(pulled) - 1)
       /\ Agrees(FoldRight(pulled, 1, Len(pulled) - 1, prev))

\* 0 ** 2 ** 0 has been evaluated to 0 (the left-nested tree gives 1)
C4_Witness ==
    /\ pc = "done"
    /\ IsChain(pulled, {"POWER"})
    /\ Len(pulled) = 6
    /\ pulled[1] = Token("NUMBER", PyInt(0))
    /\ pulled[3] = Token("NUMBER", PyInt(2))
    /\ pulled[5] = Token("NUMBER", PyInt(0))
    /\ status = "ok"
    /\ result = PyInt(0)

(***************************************************************************)
(* C5.  For a chained assignment  v1 = ... = vk = e  whose value           *)
(* expression e evaluates successfully (as a number literal always does),  *)
(* parse returns Assign(v1, ... Assign(vk, e)), interpret returns the      *)
(* value of e, and afterwards every one of v1..vk maps to that value while *)
(* every other name keeps its entry.                                       *)
(***************************************************************************)
C5_ChainedAssignment ==
    LET toks == TokensFrom(Lexer(text))
        k == LeadingPairs(toks)
        targets == {toks[2 * i - 1].value : i \in 1..k}
        core == SpineCore(tree, k)
    IN  (/\ pc = "done"
         /\ k >= 1
         /\ toks[Len(toks)].type = "EOF"
         /\ \A i \in (2 * k + 1)..Len(toks) : toks[i].type # "ASSIGN"
         /\ \/ status = "ok" /\ pulled = toks
            \/ Len(toks) = 2 * k + 2 /\ toks[2 * k + 1].type = "NUMBER")
        => /\ status = "ok"
           /\ pulled = toks
           /\ IsAssignChain(tree, toks, k)
           /\ result = visit(core, prev).value
           /\ DOMAIN variables = DOMAIN prev \cup targets
           /\ \A n \in DOMAIN variables :
                 variables[n] = IF n \in targets THEN result ELSE prev[n]

\* b = a = 2 has been evaluated: two targets, both hold 2
C5_Witness ==
    /\ pc = "done"
    /\ status = "ok"
    /\ LeadingPairs(pulled) = 2
    /\ Len(pulled) = 6
    /\ pulled[1].value # pulled[3].value
    /\ pulled[5] = Token("NUMBER", PyInt(2))
    /\ result = PyInt(2)
    /\ \A n \in {pulled[1].value, pulled[3].value} : n \in DOMAIN variables /\ variables[n] = PyInt(2)

(***************************************************************************)
(* C6.  Every Assign node of the returned tree was written as a single     *)
(* IDENTIFIER token immediately followed by = at the start of the line or  *)
(* of the right-hand side of such an assignment; any other left-hand side, *)
(* a parenthesized identifier included, gives no Assign node and no write. *)
(***************************************************************************)
C6_TargetsAreBareIdentifiers ==
    ParseReturned
    => /\ AssignCount(tree) <= LeadingPairs(pulled)
       /\ (LeadingPairs(pulled) = 0 => variables = prev)

(***************************************************************************)
(* C7.  Across the cycles run on one Interpreter the map starts empty, its *)
(* set of names never shrinks, it changes only in a cycle that evaluates   *)
(* an Assign node, it always equals the replay of the completed            *)
(* assignments (each name holds the value of the most recent one), and a   *)
(* variable reference reads the value an earlier cycle assigned.           *)
(***************************************************************************)
C7_EnvironmentAcrossCycles ==
    /\ variables = Empty
    /\ [](variables = shadow)
    /\ []((pc = "done" /\ tree.kind = "Var" /\ tree.value \in DOMAIN prev)
            => status = "ok" /\ result = prev[tree.value])
    /\ [][/\ DOMAIN variables \subseteq DOMAIN variables'
          /\ (variables' # variables
                => pc' = "done" /\ status' # "UnexpectedToken" /\ AssignCount(tree') > 0)]_vars

\* a was assigned, b was assigned from a, and a later cycle read one of them
C7_Witness ==
    /\ pc = "done"
    /\ tree.kind = "Var"
    /\ status = "ok"
    /\ Cardinality(DOMAIN variables) = 2
    /\ result = PyInt(2)
    /\ \E n \in DOMAIN variables : variables[n] = PyInt(0)

(***************************************************************************)
(* C8.  When interpret fails with an undefined variable or a division by   *)
(* zero, the map afterwards is the map before the call updated by exactly  *)
(* the assignments whose value expression had been evaluated, in visit     *)
(* order.                                                                  *)
(***************************************************************************)
C8_FailureKeepsCompletedAssignments ==
    (pc = "done" /\ status \in {"NameError", "ZeroDivisionError"})
    => variables = ApplyWrites(prev, CompletedWrites(tree, prev))

\* a directly built tree failed after one of its assignments had completed
C8_Witness ==
    /\ pc = "done"
    /\ status = "ZeroDivisionError"
    /\ tree.kind = "BinaryOp"
    /\ tree.left.kind = "Assign"
    /\ variables # prev

(***************************************************************************)
(* C9.  The lexer's cursor never passes the end of the text, the token     *)
(* stream ends in an invalid-character error or in the end-of-input token, *)
(* and the tokens the parser pulls for the tree it returns contain exactly *)
(* one end-of-input token, as the last one.                                *)
(***************************************************************************)
C9_TokenStreamEndsInOneEOF ==
    pc = "done"
    => /\ pos <= Len(text)
       /\ status # "ValueError"
       /\ (ParseReturned
             => \A i \in 1..Len(pulled) : (pulled[i].type = "EOF") <=> (i = Len(pulled)))

(***************************************************************************)
(* C10.  In every tree parse returns, Assign nodes occur only at the root  *)
(* or as the right child of an Assign, no = was consumed inside            *)
(* parentheses, and when interpret fails on the tree the map is the same   *)
(* as before the call.                                                     *)
(***************************************************************************)
C10_AssignOnlyOnTheSpine ==
    ParseReturned
    => /\ AssignSpine(tree)
       /\ \A i \in 1..(Len(pulled) - 1) :
             pulled[i].type = "ASSIGN" => ParenDepth(pulled, i) = 0
       /\ (status # "ok" => variables = prev)

\* a chained assignment failed on its value expression
C10_Witness ==
    /\ pc = "done"
    /\ status = "NameError"
    /\ tree.kind = "Assign"
    /\ tree.right.kind = "Assign"

====
